---- MODULE Spec2Model ----
(***************************************************************************)
(* Speaking-time tracker of clocket (src/src/utils/speakingTimeTracker.js) *)
(* as a state machine.                                                     *)
(*                                                                         *)
(* A tracking state is a JavaScript object.  Every operation builds its    *)
(* result with the spread copy { ...state }, which copies the top-level    *)
(* fields and therefore copies the REFERENCES held in `parties` and        *)
(* `timeline`, not the objects they point to.  The model keeps these two   *)
(* kinds of object in a heap (heapParties, heapTimeline) and a state value *)
(* holds references into it, so that an in-place write through the copy is *)
(* visible through every state that shares the reference.                  *)
(***************************************************************************)
EXTENDS Integers, Sequences, FiniteSets, TLC

VARIABLES
    clock,          \* the ambient wall clock, the value Date.now() returns
    heapParties,    \* reference -> parties object (insertion-ordered entries)
    heapTimeline,   \* reference -> timeline array
    state,          \* the state object returned by the latest call
    calls,          \* number of calls made so far
    removedTurns,   \* history: number of segments held by records removeParty deleted
    script          \* history: the run seen as a start/.../start/stop script

vars == <<clock, heapParties, heapTimeline, state, calls, removedTurns, script>>

(***************************************************************************)
(* Bounds of the model.                                                    *)
(***************************************************************************)
MaxClock == 2       \* the clock runs over 0..MaxClock
MaxCalls == 4       \* a run makes at most MaxCalls calls
MaxFaultCalls == 2  \* calls made before a faulty call is probed
MaxTotalTime == 2   \* a given totalTime lies in -MaxTotalTime..MaxTotalTime
MaxNames == 4       \* a given list of party names has at most MaxNames entries
MaxLateClock == 4   \* the clock of a hearing run to its end runs over 0..MaxLateClock
MaxHours == 2       \* a given duration has 0..MaxHours, 10 or 100 whole hours
MaxTurns == 3       \* a hearing given to the report has at most MaxTurns turns
MaxSeconds == 2     \* the duration a deposition displays runs over 0..MaxSeconds

(***************************************************************************)
(* JavaScript values.                                                      *)
(***************************************************************************)
\* null in a timestamp field (startTime, hearingStartTime, hearingEndTime)
Null == -1
\* null in currentSpeaker, or passed as a party name
NullName == "#null"
\* a party argument that is not a string (a number)
NumberName == "#42"
\* a party argument that is missing (undefined)
UndefinedName == "#undefined"
\* null or undefined passed as the state
Absent == [absent |-> TRUE]
\* the outcome of a call that raised instead of returning
Thrown == [thrown |-> "TypeError"]
\* a truthy value without a push method, found where an array is expected
NotAnArray == <<[corrupt |-> TRUE]>>
\* Array.isArray-like test the push relies on
IsArray(a) == a # NotAnArray
\* a clock whose reading raises
ClockThrows == -2

\* truthiness of a timestamp field: null and 0 are falsy
TruthyTime(t) == t # Null /\ t # 0
\* TruthyName that takes only null for falsy
TruthyNameNullOnly(n) == n # NullName
\* truthiness of a name: null, undefined and the empty string are falsy
TruthyName(n) == n # NullName /\ n # UndefinedName /\ n # ""
\* typeof n === 'string'
IsString(n) == n # NullName /\ n # UndefinedName /\ n # NumberName
\* numeric coercion of a timestamp field in an arithmetic expression
ToNumber(t) == IF t = Null THEN 0 ELSE t
\* a name typed with a leading blank
PaddedName == " State"
\* String.prototype.trim on the names the model uses
Trim(n) == IF n = "   " THEN "" ELSE IF n = PaddedName THEN "State" ELSE n

\* the names a caller passes as a party
PartyNames == {"State", "Defense", "Court"}
\* arguments that are no usable name
BadNames == {"", "   ", NullName, NumberName}

(***************************************************************************)
(* The parties object: a JavaScript object used as a map from name to      *)
(* record, kept as the sequence of its entries in insertion order (the     *)
(* order Object.keys, Object.values and Object.entries enumerate).         *)
(***************************************************************************)
Has(p, n) == \E i \in 1..Len(p) : p[i].name = n
Idx(p, n) == CHOOSE i \in 1..Len(p) : p[i].name = n
Get(p, n) == p[Idx(p, n)]
Keys(p) == {p[i].name : i \in 1..Len(p)}

\* p[n] = { totalTime, segments }: an existing key keeps its position
SetKey(p, n, totalTime, segments) ==
    LET e == [name |-> n, totalTime |-> totalTime, segments |-> segments]
    IN  IF Has(p, n) THEN [p EXCEPT ![Idx(p, n)] = e] ELSE Append(p, e)

\* DeleteKey that drops the first entry when n is a key
DeleteFirstKey(p, n) == IF \E i \in 1..Len(p) : p[i].name = n THEN Tail(p) ELSE p

\* delete p[n]
DeleteKey(p, n) == SelectSeq(p, LAMBDA e : e.name # n)

RECURSIVE SumTotalTime(_)
SumTotalTime(p) ==
    IF p = <<>> THEN 0 ELSE Head(p).totalTime + SumTotalTime(Tail(p))

RECURSIVE SumSegments(_)
SumSegments(p) ==
    IF p = <<>> THEN 0 ELSE Len(Head(p).segments) + SumSegments(Tail(p))

(***************************************************************************)
(* initializeSpeakingTime                                                  *)
(***************************************************************************)
RECURSIVE ReduceParties(_, _)
ReduceParties(acc, parties) ==
    IF parties = <<>> THEN acc
    ELSE ReduceParties(SetKey(acc, Head(parties), 0, <<>>), Tail(parties))

\* initializeSpeakingTime that returns an active tracker
initializeSpeakingTimeActive(pref, tref) ==
    [ parties          |-> pref,
      timeline         |-> tref,
      currentSpeaker   |-> NullName,
      startTime        |-> Null,
      hearingStartTime |-> Null,
      hearingEndTime   |-> Null,
      isActive         |-> TRUE,
      isPaused         |-> FALSE ]

\* the top-level fields of a fresh state whose parties and timeline are the
\* objects at references pref and tref
initializeSpeakingTime(pref, tref) ==
    [ parties          |-> pref,
      timeline         |-> tref,
      currentSpeaker   |-> NullName,
      startTime        |-> Null,
      hearingStartTime |-> Null,
      hearingEndTime   |-> Null,
      isActive         |-> FALSE,
      isPaused         |-> FALSE ]

\* the party list of initializeSpeakingTime()
DefaultParties == <<"State", "Defense", "Court">>

\* the heap h with one more object, stored at the next free reference
NewRef(h) == Cardinality(DOMAIN h) + 1
Alloc(h, obj) ==
    [r \in DOMAIN h \cup {NewRef(h)} |-> IF r \in DOMAIN h THEN h[r] ELSE obj]

\* arguments of initializeSpeakingTime that are no array: nothing, null,
\* a number
NoLists == { <<UndefinedName>>, <<NullName>>, <<NumberName>> }

\* return initializeSpeakingTime(parties): a state on objects of its own;
\* if (!parties || !Array.isArray(parties)) parties = the default list
Construct(hp, ht, parties) ==
    LET names == IF parties \in NoLists THEN DefaultParties ELSE parties
    IN  [ ret |-> initializeSpeakingTime(NewRef(hp), NewRef(ht)),
          hp  |-> Alloc(hp, ReduceParties(<<>>, names)),
          ht  |-> Alloc(ht, <<>>) ]

\* return initializeSpeakingTime()
Fresh(hp, ht) == Construct(hp, ht, <<UndefinedName>>)

\* the party lists the tracker is constructed with
InitialParties == { <<"State", "Defense">>, <<"State", "Defense", "Court">> }

(***************************************************************************)
(* What a caller sees through a state object: the fields with the          *)
(* references followed.                                                    *)
(***************************************************************************)
View(hp, ht, st) ==
    [ parties          |-> hp[st.parties],
      timeline         |-> ht[st.timeline],
      currentSpeaker   |-> st.currentSpeaker,
      startTime        |-> st.startTime,
      hearingStartTime |-> st.hearingStartTime,
      hearingEndTime   |-> st.hearingEndTime,
      isActive         |-> st.isActive,
      isPaused         |-> st.isPaused ]

(***************************************************************************)
(* startSpeaking                                                           *)
(***************************************************************************)
\* if (!newState.hearingStartTime) { hearingStartTime = now; isActive = true }
MarkHearingStart(st, now) ==
    IF ~TruthyTime(st.hearingStartTime)
    THEN [st EXCEPT !.hearingStartTime = now, !.isActive = TRUE]
    ELSE st

\* the guard of "someone was already speaking, stop their time"
startSpeakingFinalizes(p, st, party) ==
    /\ TruthyName(st.currentSpeaker)
    /\ st.currentSpeaker # party
    /\ Has(p, st.currentSpeaker)

\* Duration measured from the start of the hearing instead of the turn
DurationSinceHearingStart(st, now) == now - ToNumber(st.hearingStartTime)

\* const duration = now - newState.startTime
Duration(st, now) == now - ToNumber(st.startTime)

\* AddSegment without "totalTime += duration"
AddSegmentKeepsTotal(p, speaker, start, now, duration) ==
    LET r == p[Idx(p, speaker)]
    IN  SetKey(p, speaker, r.totalTime,
               Append(r.segments,
                      [start |-> start, end |-> now, duration |-> duration]))

\* totalTime += duration and segments.push({start, end, duration}), written
\* in place into the record of `speaker`
AddSegment(p, speaker, start, now, duration) ==
    LET r == Get(p, speaker)
    IN  SetKey(p, speaker, r.totalTime + duration,
               Append(r.segments,
                      [start |-> start, end |-> now, duration |-> duration]))

\* totalTime += duration alone: the write made before a push that raises
AddDuration(p, speaker, duration) ==
    LET r == Get(p, speaker)
    IN  SetKey(p, speaker, r.totalTime + duration, r.segments)

\* AddTimeline without the push
AddTimelineSkips(tl, speaker, start, now, duration) == tl

\* timeline.push({party, start, end, duration}), in place
AddTimeline(tl, speaker, start, now, duration) ==
    Append(tl, [party |-> speaker, start |-> start, end |-> now,
                duration |-> duration])

\* EnsureParty that registers nobody
EnsurePartySkips(p, party) == p

\* EnsureParty without the test
EnsurePartyResets(p, party) == SetKey(p, party, 0, <<>>)

\* if (!newState.parties[party]) newState.parties[party] = {totalTime: 0, segments: []}
EnsureParty(p, party) ==
    IF Has(p, party) THEN p ELSE SetKey(p, party, 0, <<>>)

\* currentSpeaker = party; startTime = now; isPaused = false
BeginTurn(st, party, now) ==
    [st EXCEPT !.currentSpeaker = party, !.startTime = now, !.isPaused = FALSE]

\* The call startSpeaking(st, party) made when Date.now() returns `now`, on
\* the heap <<hp, ht>>: the returned state and the heap after the call.
\* newState = { ...state } keeps st.parties and st.timeline, so the writes
\* go to the objects the input state refers to.  An exception raised inside
\* the try block (by Date.now(), or by segments.push on a value that is no
\* array) is caught and the input state returned; what was written before
\* the exception stays written.
startSpeaking(hp, ht, st, party, now) ==
    IF st = Absent
    THEN Fresh(hp, ht)
    ELSE IF ~TruthyName(party) \/ ~IsString(party)
    THEN [ret |-> st, hp |-> hp, ht |-> ht]
    ELSE IF now = ClockThrows
    THEN [ret |-> st, hp |-> hp, ht |-> ht]
    ELSE
        LET ns  == MarkHearingStart(st, now)
            p   == hp[ns.parties]
            tl  == ht[ns.timeline]
            fin == startSpeakingFinalizes(p, ns, party)
            p1  == IF fin THEN AddSegment(p, ns.currentSpeaker, ns.startTime, now,
                                        Duration(ns, now))
                   ELSE p
            tl1 == IF fin THEN AddTimeline(tl, ns.currentSpeaker, ns.startTime, now,
                                         Duration(ns, now))
                   ELSE tl
            p2  == EnsureParty(p1, party)
        IN  IF fin /\ ~IsArray(Get(p, ns.currentSpeaker).segments)
            THEN [ ret |-> st,
                   hp  |-> [hp EXCEPT ![ns.parties] =
                               AddDuration(p, ns.currentSpeaker, Duration(ns, now))],
                   ht  |-> ht ]
            ELSE [ ret |-> BeginTurn(ns, party, now),
                   hp  |-> [hp EXCEPT ![ns.parties] = p2],
                   ht  |-> [ht EXCEPT ![ns.timeline] = tl1] ]

(***************************************************************************)
(* stopTracking                                                            *)
(***************************************************************************)
\* the guard of "someone was speaking, finalize their time"
stopTrackingFinalizes(p, st) ==
    /\ TruthyName(st.currentSpeaker)
    /\ TruthyTime(st.startTime)
    /\ Has(p, st.currentSpeaker)

\* EndHearing without "startTime = null"
EndHearingKeepsStartTime(st, now) ==
    [st EXCEPT !.hearingEndTime = now, !.currentSpeaker = NullName,
               !.isActive = FALSE, !.isPaused = TRUE]

\* EndHearing without "hearingEndTime = now"
EndHearingKeepsEndTime(st, now) ==
    [st EXCEPT !.currentSpeaker = NullName,
               !.startTime = Null, !.isActive = FALSE, !.isPaused = TRUE]

\* hearingEndTime = now; currentSpeaker = null; startTime = null;
\* isActive = false; isPaused = true
EndHearing(st, now) ==
    [st EXCEPT !.hearingEndTime = now, !.currentSpeaker = NullName,
               !.startTime = Null, !.isActive = FALSE, !.isPaused = TRUE]

\* the call stopTracking(st) made when Date.now() returns `now`; exceptions
\* inside the try block as in startSpeaking
stopTracking(hp, ht, st, now) ==
    IF st = Absent
    THEN Fresh(hp, ht)
    ELSE IF now = ClockThrows
    THEN [ret |-> st, hp |-> hp, ht |-> ht]
    ELSE
        LET p   == hp[st.parties]
            tl  == ht[st.timeline]
            fin == stopTrackingFinalizes(p, st)
            p1  == IF fin THEN AddSegment(p, st.currentSpeaker, st.startTime, now,
                                        Duration(st, now))
                   ELSE p
            tl1 == IF fin THEN AddTimeline(tl, st.currentSpeaker, st.startTime, now,
                                         Duration(st, now))
                   ELSE tl
        IN  IF fin /\ ~IsArray(Get(p, st.currentSpeaker).segments)
            THEN [ ret |-> st,
                   hp  |-> [hp EXCEPT ![st.parties] =
                               AddDuration(p, st.currentSpeaker, Duration(st, now))],
                   ht  |-> ht ]
            ELSE [ ret |-> EndHearing(st, now),
                   hp  |-> [hp EXCEPT ![st.parties] = p1],
                   ht  |-> [ht EXCEPT ![st.timeline] = tl1] ]

(***************************************************************************)
(* addParty, removeParty                                                   *)
(***************************************************************************)
\* the name is rejected: empty, not a string, or whitespace only
addPartyRejects(partyName) ==
    ~TruthyName(partyName) \/ ~IsString(partyName) \/ Trim(partyName) = ""

\* newState.parties[partyName] = {totalTime: 0, segments: []} unless present,
\* written through the copied reference; an absent state is replaced by
\* initializeSpeakingTime() first
addParty(hp, ht, st, partyName) ==
    LET s0 == IF st = Absent THEN Fresh(hp, ht)
              ELSE [ret |-> st, hp |-> hp, ht |-> ht]
    IN  IF addPartyRejects(partyName)
        THEN s0
        ELSE [ ret |-> s0.ret,
               hp  |-> [s0.hp EXCEPT ![s0.ret.parties] =
                           EnsureParty(s0.hp[s0.ret.parties], partyName)],
               ht  |-> s0.ht ]

\* removePartyRejects without the test
removePartyNeverRejects(st, partyName) == FALSE

\* the party is the one currently speaking: nothing is removed
removePartyRejects(st, partyName) == st.currentSpeaker = partyName

\* delete newState.parties[partyName], through the copied reference.  There
\* is no test of the state: { ...null } is {}, whose currentSpeaker is
\* undefined and whose parties is undefined, so the delete raises a TypeError
\* unless the name is undefined too; nothing catches it.
removeParty(hp, ht, st, partyName) ==
    IF st = Absent
    THEN IF partyName = UndefinedName
         THEN [ret |-> Absent, hp |-> hp, ht |-> ht]
         ELSE [ret |-> Thrown, hp |-> hp, ht |-> ht]
    ELSE IF removePartyRejects(st, partyName)
    THEN [ret |-> st, hp |-> hp, ht |-> ht]
    ELSE [ ret |-> st,
           hp  |-> [hp EXCEPT ![st.parties] = DeleteKey(hp[st.parties], partyName)],
           ht  |-> ht ]

(***************************************************************************)
(* calculateStatistics                                                     *)
(***************************************************************************)
Max(a, b) == IF a >= b THEN a ELSE b

\* averageSegmentTime with Math.floor for Math.round
averageSegmentTimeFloors(totalTime, count) ==
    IF count > 0 THEN totalTime \div count ELSE 0

\* Math.round(totalTime / segments.length): the nearest integer, halves up
averageSegmentTime(totalTime, count) ==
    IF count > 0 THEN (2 * totalTime + count) \div (2 * count) ELSE 0

Abs(x) == IF x < 0 THEN -x ELSE x

\* toFixed1 without the "* 100"
toFixed1OfFraction(totalTime, totalSpeakingTime) ==
    LET tenths == (20 * Abs(totalTime) + totalSpeakingTime)
                      \div (2 * totalSpeakingTime)
    IN  (IF totalTime < 0 THEN "-" ELSE "")
            \o ToString(tenths \div 10) \o "." \o ToString(tenths % 10)

\* one more decimal digit of a quotient by d: qr is the quotient and the
\* remainder so far
NextDigit(qr, d) ==
    [q |-> 10 * qr.q + (10 * qr.r) \div d, r |-> (10 * qr.r) % d]

\* (totalTime / totalSpeakingTime * 100).toFixed(1) for totalSpeakingTime > 0:
\* the sign, then the magnitude rounded to the nearest tenth (halves up) with
\* one digit after the point.  Exact for the quotients that are no exact
\* half of a tenth.
toFixed1(totalTime, totalSpeakingTime) ==
    LET a      == Abs(totalTime)
        whole  == [q |-> a \div totalSpeakingTime, r |-> a % totalSpeakingTime]
        qr     == NextDigit(NextDigit(NextDigit(whole, totalSpeakingTime),
                                      totalSpeakingTime), totalSpeakingTime)
        tenths == qr.q + (IF 2 * qr.r >= totalSpeakingTime THEN 1 ELSE 0)
    IN  (IF totalTime < 0 THEN "-" ELSE "")
            \o ToString(tenths \div 10) \o "." \o ToString(tenths % 10)

\* totalSpeakingTime > 0 ? (totalTime / totalSpeakingTime * 100).toFixed(1) : '0'
percentage(totalTime, totalSpeakingTime) ==
    IF totalSpeakingTime > 0 THEN toFixed1(totalTime, totalSpeakingTime) ELSE "0"

\* v is what the caller sees of the state (View)
calculateStatistics(v) ==
    LET totalHearingTime ==
            (IF TruthyTime(v.hearingEndTime) THEN v.hearingEndTime ELSE 0)
          - (IF TruthyTime(v.hearingStartTime) THEN v.hearingStartTime ELSE 0)
        totalSpeakingTime == SumTotalTime(v.parties)
    IN  [ totalHearingTime  |-> Max(0, totalHearingTime),
          totalSpeakingTime |-> totalSpeakingTime,
          silenceTime       |-> Max(0, totalHearingTime - totalSpeakingTime),
          parties           |->
              [ i \in 1..Len(v.parties) |->
                  [ name               |-> v.parties[i].name,
                    totalTime          |-> v.parties[i].totalTime,
                    percentage         |->
                        percentage(v.parties[i].totalTime, totalSpeakingTime),
                    segmentCount       |-> Len(v.parties[i].segments),
                    averageSegmentTime |->
                        averageSegmentTime(v.parties[i].totalTime,
                                           Len(v.parties[i].segments)) ] ] ]

(***************************************************************************)
(* The state machine.  Operations are applied to the state the previous    *)
(* call returned; the clock advances between calls.                        *)
(***************************************************************************)
\* the tracker after initializeSpeakingTime(parties)
InitTracker ==
    /\ clock = 0
    /\ \E parties \in InitialParties :
           heapParties = [r \in {1} |-> ReduceParties(<<>>, parties)]
    /\ heapTimeline = [r \in {1} |-> <<>>]
    /\ state = initializeSpeakingTime(1, 1)
    /\ calls = 0
    /\ removedTurns = 0

\* the caller keeps the returned state; the heap is as the call left it
Returns(r) ==
    /\ calls < MaxCalls
    /\ calls' = calls + 1
    /\ state' = r.ret
    /\ heapParties' = r.hp
    /\ heapTimeline' = r.ht

\* state = startSpeaking(state, party), Date.now() returning clock
StartSpeakingCall(party) ==
    LET r == startSpeaking(heapParties, heapTimeline, state, party, clock)
    IN  /\ Returns(r)
        /\ UNCHANGED <<clock, removedTurns>>

\* state = stopTracking(state), Date.now() returning clock
StopTrackingCall ==
    LET r == stopTracking(heapParties, heapTimeline, state, clock)
    IN  /\ Returns(r)
        /\ UNCHANGED <<clock, removedTurns>>

\* state = addParty(state, partyName)
AddPartyCall(partyName) ==
    LET r == addParty(heapParties, heapTimeline, state, partyName)
    IN  /\ Returns(r)
        /\ UNCHANGED <<clock, removedTurns>>

\* state = removeParty(state, partyName)
RemovePartyCall(partyName) ==
    LET r == removeParty(heapParties, heapTimeline, state, partyName)
    IN  /\ Returns(r)
        /\ removedTurns' = removedTurns
               + SumSegments(heapParties[state.parties])
               - SumSegments(r.hp[r.ret.parties])
        /\ UNCHANGED clock

(***************************************************************************)
(* Spec: any sequence of the four operations, with any argument.           *)
(***************************************************************************)
ScriptBlank(phase) ==
    [ phase |-> phase, first |-> 0, stop |-> 0, speaker |-> NullName,
      since |-> 0, credit |-> [n \in PartyNames |-> 0] ]

Init ==
    /\ InitTracker
    /\ script = ScriptBlank("off")

\* time passes
Tick ==
    /\ clock < MaxClock
    /\ clock' = clock + 1
    /\ UNCHANGED <<heapParties, heapTimeline, state, calls, removedTurns, script>>

StartSpeaking ==
    \E party \in PartyNames \cup BadNames :
        StartSpeakingCall(party) /\ UNCHANGED script

StopTracking == StopTrackingCall /\ UNCHANGED script

AddParty ==
    \E partyName \in PartyNames \cup BadNames :
        AddPartyCall(partyName) /\ UNCHANGED script

RemoveParty ==
    \E partyName \in PartyNames \cup BadNames :
        RemovePartyCall(partyName) /\ UNCHANGED script

Next ==
    \/ Tick
    \/ StartSpeaking
    \/ StopTracking
    \/ AddParty
    \/ RemoveParty

Spec == Init /\ [][Next]_vars

(***************************************************************************)
(* SpecScript: the scripted run startSpeaking(n1), wait, startSpeaking(n2), *)
(* wait, ..., stopTracking(), consecutive names different.  `script`       *)
(* records what the stopwatch of an observer shows: `first` and `stop`     *)
(* are the clock values of the first start and of the stop, credit[n] the  *)
(* time that passed while n was the name last clicked.                     *)
(***************************************************************************)
InitScript ==
    /\ InitTracker
    /\ script = ScriptBlank("fresh")

ScriptStartSpeaking ==
    \E party \in PartyNames :
        /\ script.phase \in {"fresh", "starts"}
        /\ party # script.speaker
        /\ StartSpeakingCall(party)
        /\ script' =
             IF script.phase = "fresh"
             THEN [script EXCEPT !.phase = "starts", !.first = clock,
                                 !.speaker = party, !.since = clock]
             ELSE [script EXCEPT !.credit[script.speaker] = @ + (clock - script.since),
                                 !.speaker = party, !.since = clock]

ScriptStopTracking ==
    /\ script.phase = "starts"
    /\ StopTrackingCall
    /\ script' = [script EXCEPT !.phase = "stopped", !.stop = clock,
                                !.credit[script.speaker] = @ + (clock - script.since),
                                !.speaker = NullName, !.since = 0]

ScriptNext ==
    \/ Tick
    \/ ScriptStartSpeaking
    \/ ScriptStopTracking

SpecScript == InitScript /\ [][ScriptNext]_vars

(***************************************************************************)
(* SpecProbe: a run of Spec followed by one last call, the probe, whose    *)
(* operation and argument `script` records.  The probe draws the argument  *)
(* of addParty from a set that holds a padded name as well.                *)
(***************************************************************************)
Probed(op, party) == [phase |-> "probed", op |-> op, party |-> party]

\* the run before the probe: any step of Spec
Prelude == script.phase = "off" /\ Next

ProbeStartSpeaking ==
    \E party \in PartyNames \cup BadNames \cup {UndefinedName} :
        /\ script.phase = "off"
        /\ StartSpeakingCall(party)
        /\ script' = Probed("startSpeaking", party)

ProbeStopTracking ==
    /\ script.phase = "off"
    /\ StopTrackingCall
    /\ script' = Probed("stopTracking", NullName)

ProbeAddParty ==
    \E partyName \in PartyNames \cup BadNames \cup {PaddedName} :
        /\ script.phase = "off"
        /\ AddPartyCall(partyName)
        /\ script' = Probed("addParty", partyName)

ProbeRemoveParty ==
    \E partyName \in PartyNames \cup BadNames :
        /\ script.phase = "off"
        /\ RemovePartyCall(partyName)
        /\ script' = Probed("removeParty", partyName)

ProbeNext ==
    \/ Prelude
    \/ ProbeStartSpeaking
    \/ ProbeStopTracking
    \/ ProbeAddParty
    \/ ProbeRemoveParty

SpecProbe == Init /\ [][ProbeNext]_vars

(***************************************************************************)
(* SpecFaults: a run of at most MaxFaultCalls calls of Spec followed by    *)
(* one faulty call, which `script` records: a call made with an absent     *)
(* state, a call during which reading the clock raises, or a call made     *)
(* after the record of the current speaker was tampered with (its segments *)
(* replaced by a value that is no array).                                  *)
(***************************************************************************)
Faulted(op, party, fault) ==
    [phase |-> "faulted", op |-> op, party |-> party, fault |-> fault]

\* the arguments of a call made with an absent state
FaultNames == PartyNames \cup BadNames \cup {UndefinedName}

FaultPrelude ==
    /\ script.phase = "off"
    /\ Next
    /\ calls' <= MaxFaultCalls

AbsentStartSpeaking ==
    \E party \in FaultNames :
        /\ script.phase = "off"
        /\ Returns(startSpeaking(heapParties, heapTimeline, Absent, party, clock))
        /\ script' = Faulted("startSpeaking", party, "absent")
        /\ UNCHANGED <<clock, removedTurns>>

AbsentStopTracking ==
    /\ script.phase = "off"
    /\ Returns(stopTracking(heapParties, heapTimeline, Absent, clock))
    /\ script' = Faulted("stopTracking", NullName, "absent")
    /\ UNCHANGED <<clock, removedTurns>>

AbsentAddParty ==
    \E partyName \in FaultNames :
        /\ script.phase = "off"
        /\ Returns(addParty(heapParties, heapTimeline, Absent, partyName))
        /\ script' = Faulted("addParty", partyName, "absent")
        /\ UNCHANGED <<clock, removedTurns>>

AbsentRemoveParty ==
    \E partyName \in FaultNames :
        /\ script.phase = "off"
        /\ Returns(removeParty(heapParties, heapTimeline, Absent, partyName))
        /\ script' = Faulted("removeParty", partyName, "absent")
        /\ UNCHANGED <<clock, removedTurns>>

\* Date.now() raises during the call
FailingClockStartSpeaking ==
    \E party \in PartyNames :
        /\ script.phase = "off"
        /\ Returns(startSpeaking(heapParties, heapTimeline, state, party, ClockThrows))
        /\ script' = Faulted("startSpeaking", party, "clock")
        /\ UNCHANGED <<clock, removedTurns>>

FailingClockStopTracking ==
    /\ script.phase = "off"
    /\ Returns(stopTracking(heapParties, heapTimeline, state, ClockThrows))
    /\ script' = Faulted("stopTracking", NullName, "clock")
    /\ UNCHANGED <<clock, removedTurns>>

\* the segments of the current speaker's record are replaced by a value
\* that is no array
Tamper ==
    /\ script.phase = "off"
    /\ Has(heapParties[state.parties], state.currentSpeaker)
    /\ heapParties' =
          [heapParties EXCEPT ![state.parties] =
              SetKey(@, state.currentSpeaker,
                     Get(@, state.currentSpeaker).totalTime, NotAnArray)]
    /\ script' = [phase |-> "tampered"]
    /\ UNCHANGED <<clock, heapTimeline, state, calls, removedTurns>>

TamperedStartSpeaking ==
    \E party \in PartyNames :
        /\ script.phase = "tampered"
        /\ StartSpeakingCall(party)
        /\ script' = Faulted("startSpeaking", party, "segments")

TamperedStopTracking ==
    /\ script.phase = "tampered"
    /\ StopTrackingCall
    /\ script' = Faulted("stopTracking", NullName, "segments")

FaultsNext ==
    \/ FaultPrelude
    \/ AbsentStartSpeaking
    \/ AbsentStopTracking
    \/ AbsentAddParty
    \/ AbsentRemoveParty
    \/ FailingClockStartSpeaking
    \/ FailingClockStopTracking
    \/ Tamper
    \/ TamperedStartSpeaking
    \/ TamperedStopTracking

SpecFaults == Init /\ [][FaultsNext]_vars

(***************************************************************************)
(* SpecStats: calculateStatistics applied to a given state object.  The    *)
(* state is any object of the tracker's shape: two participants with any   *)
(* totalTime (negative values arise when the clock is set back), and any   *)
(* hearingStartTime and hearingEndTime, absent included.                   *)
(***************************************************************************)
GivenTimes == {Null} \cup 0..MaxClock
GivenTotals == -MaxTotalTime..MaxTotalTime

InitStats ==
    /\ clock = 0
    /\ \E a, b \in GivenTotals :
           heapParties =
               [r \in {1} |->
                   << [name |-> "State", totalTime |-> a, segments |-> <<>>],
                      [name |-> "Defense", totalTime |-> b, segments |-> <<>>] >>]
    /\ heapTimeline = [r \in {1} |-> <<>>]
    /\ \E s, e \in GivenTimes :
           state = [initializeSpeakingTime(1, 1) EXCEPT !.hearingStartTime = s,
                                                        !.hearingEndTime = e]
    /\ calls = 0
    /\ removedTurns = 0
    /\ script = [phase |-> "given"]

\* stats = calculateStatistics(state)
Calculate ==
    /\ script.phase = "given"
    /\ script' = [ phase |-> "stats",
                   stats |-> calculateStatistics(
                                 View(heapParties, heapTimeline, state)) ]
    /\ UNCHANGED <<clock, heapParties, heapTimeline, state, calls, removedTurns>>

StatsNext == Calculate

SpecStats == InitStats /\ [][StatsNext]_vars

(***************************************************************************)
(* SpecHearing: a hearing run to its end: startSpeaking with the names of  *)
(* parties and stopTracking, under a clock that runs further than in Spec. *)
(***************************************************************************)
LateTick ==
    /\ clock < MaxLateClock
    /\ clock' = clock + 1
    /\ UNCHANGED <<heapParties, heapTimeline, state, calls, removedTurns, script>>

HearingStartSpeaking ==
    \E party \in PartyNames :
        StartSpeakingCall(party) /\ UNCHANGED script

HearingStopTracking == StopTrackingCall /\ UNCHANGED script

HearingNext ==
    \/ LateTick
    \/ HearingStartSpeaking
    \/ HearingStopTracking

SpecHearing == Init /\ [][HearingNext]_vars

(***************************************************************************)
(* formatTime (lines 236-256).  Its argument is a JavaScript value: a      *)
(* number, null, undefined or NaN.                                         *)
(***************************************************************************)
Num(n) == [kind |-> "number", n |-> n]
JsNull == [kind |-> "null"]
JsUndefined == [kind |-> "undefined"]
JsNaN == [kind |-> "NaN"]

\* n.toString() without padStart(2, '0')
padStart2Unpadded(n) == ToString(n)

\* n.toString().padStart(2, '0'), n in 0..59
padStart2(n) == IF n < 10 THEN "0" \o ToString(n) ELSE ToString(n)

formatTime(ms) ==
    IF ms.kind # "number" THEN "0:00"
    ELSE IF ms.n < 0 THEN "0:00"
    ELSE LET seconds == ms.n \div 1000
             minutes == seconds \div 60
             hours   == minutes \div 60
         IN  IF hours > 0
             THEN ToString(hours) \o ":" \o padStart2(minutes % 60)
                      \o ":" \o padStart2(seconds % 60)
             ELSE ToString(minutes) \o ":" \o padStart2(seconds % 60)

(***************************************************************************)
(* generateTextReport (lines 264-316).  The report is kept as its parts:   *)
(* the date, the three summary lines, the per-party breakdown and the      *)
(* lines of the timeline section.  The lines made of hearingInfo alone are *)
(* left out.  v is what the caller sees of the state, or Absent.           *)
(***************************************************************************)
\* new Date(ms).toLocaleString() / toLocaleTimeString(): the moment to the
\* second; its rendering depends on the locale
toLocaleTime(ms) == [second |-> ms \div 1000]

\* what the caller sees of initializeSpeakingTime()
DefaultView ==
    LET f == Fresh(<<>>, <<>>) IN View(f.hp, f.ht, f.ret)

\* SortByTotalTime that keeps the order of the statistics
SortByTotalTimeSkipped(entries) == entries

\* .sort((a, b) => b[1].totalTime - a[1].totalTime): stable, descending
RECURSIVE SortByTotalTime(_)
SortByTotalTime(entries) ==
    IF entries = <<>> THEN <<>>
    ELSE LET n      == Len(entries)
             e      == entries[n]
             sorted == SortByTotalTime(SubSeq(entries, 1, n - 1))
             k      == Cardinality({ i \in 1..(n - 1) :
                                         sorted[i].totalTime >= e.totalTime })
         IN  SubSeq(sorted, 1, k) \o <<e>> \o SubSeq(sorted, k + 1, n - 1)

\* the four lines of one participant
BreakdownEntry(data) ==
    [ party     |-> data.name,
      totalTime |-> formatTime(Num(data.totalTime)),
      percent   |-> data.percentage,
      turns     |-> data.segmentCount,
      average   |-> formatTime(Num(data.averageSegmentTime)) ]

\* segment && segment.start && segment.party && segment.duration !== undefined
TimelineListed(segment) ==
    /\ TruthyTime(segment.start)
    /\ TruthyName(segment.party)
    /\ "duration" \in DOMAIN segment

\* `${index + 1}. ${startTime} - ${segment.party} (${duration})`
TimelineLine(segment, index) ==
    [ index    |-> index,
      start    |-> toLocaleTime(segment.start),
      party    |-> segment.party,
      duration |-> formatTime(Num(segment.duration)) ]

\* timeline.forEach from the entry at index on
RECURSIVE TimelineLines(_, _)
TimelineLines(timeline, index) ==
    IF index > Len(timeline) THEN <<>>
    ELSE (IF TimelineListed(timeline[index])
          THEN <<TimelineLine(timeline[index], index)>>
          ELSE <<>>) \o TimelineLines(timeline, index + 1)

generateTextReport(v) ==
    LET st     == IF v = Absent THEN DefaultView ELSE v
        stats  == calculateStatistics(st)
        sorted == SortByTotalTime(stats.parties)
    IN  [ date      |-> IF TruthyTime(st.hearingStartTime)
                        THEN <<toLocaleTime(st.hearingStartTime)>>
                        ELSE <<>>,
          summary   |-> [ totalHearingTime  |->
                              formatTime(Num(stats.totalHearingTime)),
                          totalSpeakingTime |->
                              formatTime(Num(stats.totalSpeakingTime)),
                          silenceTime       |->
                              formatTime(Num(stats.silenceTime)) ],
          breakdown |-> [ i \in 1..Len(sorted) |-> BreakdownEntry(sorted[i]) ],
          timeline  |-> TimelineLines(st.timeline, 1) ]

(***************************************************************************)
(* generateChartData (lines 323-367)                                       *)
(***************************************************************************)
\* Palette without its last colour
PaletteOfFive == << "#e74c3c", "#3498db", "#95a5a6", "#f39c12", "#9b59b6" >>

Palette == << "#e74c3c", "#3498db", "#95a5a6", "#f39c12", "#9b59b6", "#1abc9c" >>

\* ChartValues in the order of the report
ChartValuesSorted(entries) ==
    LET sorted == SortByTotalTime(entries)
    IN  [ i \in 1..Len(sorted) |-> sorted[i].totalTime ]

\* Object.values(stats.parties).map(p => p.totalTime)
ChartValues(entries) == [ i \in 1..Len(entries) |-> entries[i].totalTime ]

generateChartData(v) ==
    IF v = Absent
    THEN [ labels |-> <<>>, data |-> <<>>, backgroundColor |-> <<>>,
           borderWidth |-> 2 ]
    ELSE LET stats == calculateStatistics(v)
         IN  [ labels |-> [ i \in 1..Len(stats.parties) |->
                                stats.parties[i].name ],
               data   |-> ChartValues(stats.parties),
               backgroundColor |-> Palette,
               borderWidth |-> 2 ]

(***************************************************************************)
(* SpecReport: the report and the chart of a given state: no state at all, *)
(* or the state a hearing of up to MaxTurns turns leaves when it is        *)
(* stopped.                                                                *)
(***************************************************************************)
GivenDurations == {0, 65000, 3661000}
GivenStarts == {0, 1000}
GivenLineups == { <<>>, DefaultParties }
GivenTurns ==
    UNION { [1..n -> PartyNames \X GivenDurations] : n \in 0..MaxTurns }

\* startSpeaking for each turn at the time the turn begins, then stopTracking
RECURSIVE Play(_, _, _)
Play(r, turns, now) ==
    IF turns = <<>> THEN stopTracking(r.hp, r.ht, r.ret, now)
    ELSE Play(startSpeaking(r.hp, r.ht, r.ret, Head(turns)[1], now),
              Tail(turns), now + Head(turns)[2])

InitReport ==
    /\ clock = 0
    /\ calls = 0
    /\ removedTurns = 0
    /\ script = [phase |-> "given"]
    /\ \/ /\ state = Absent
          /\ heapParties = <<>>
          /\ heapTimeline = <<>>
       \/ \E lineup \in GivenLineups, turns \in GivenTurns,
             start \in GivenStarts :
              LET r == Play(Construct(<<>>, <<>>, lineup), turns, start)
              IN  /\ state = r.ret
                  /\ heapParties = r.hp
                  /\ heapTimeline = r.ht

\* what the caller sees of the given state
GivenView ==
    IF state = Absent THEN Absent ELSE View(heapParties, heapTimeline, state)

\* report = generateTextReport(state, hearingInfo)
Report ==
    /\ script.phase = "given"
    /\ script' = [phase |-> "report", report |-> generateTextReport(GivenView)]
    /\ UNCHANGED <<clock, heapParties, heapTimeline, state, calls, removedTurns>>

\* chart = generateChartData(state)
Chart ==
    /\ script.phase = "given"
    /\ script' = [phase |-> "chart", chart |-> generateChartData(GivenView)]
    /\ UNCHANGED <<clock, heapParties, heapTimeline, state, calls, removedTurns>>

ReportNext ==
    \/ Report
    \/ Chart

SpecReport == InitReport /\ [][ReportNext]_vars

(***************************************************************************)
(* SpecRepeat: two runs of the tracker side by side.  The tracker of the   *)
(* variables takes every call; the tracker kept in script takes the same   *)
(* calls at the same clock readings except the startSpeaking calls that    *)
(* name the participant already speaking.                                  *)
(***************************************************************************)
Shadow(r) == [phase |-> "shadow", hp |-> r.hp, ht |-> r.ht, st |-> r.ret]

InitRepeat ==
    /\ InitTracker
    /\ script = Shadow([hp |-> heapParties, ht |-> heapTimeline, ret |-> state])

\* startSpeaking(party) for another participant than the speaker, in both runs
SwitchSpeaker ==
    \E party \in PartyNames :
        /\ party # state.currentSpeaker
        /\ StartSpeakingCall(party)
        /\ script' = Shadow(startSpeaking(script.hp, script.ht, script.st,
                                          party, clock))

\* startSpeaking(X) while X is speaking, in the first run only
RepeatedStart ==
    /\ state.currentSpeaker # NullName
    /\ StartSpeakingCall(state.currentSpeaker)
    /\ UNCHANGED script

\* stopTracking in both runs
BothStop ==
    /\ StopTrackingCall
    /\ script' = Shadow(stopTracking(script.hp, script.ht, script.st, clock))

\* addParty(partyName) in both runs
BothAddParty ==
    \E partyName \in PartyNames :
        /\ AddPartyCall(partyName)
        /\ script' = Shadow(addParty(script.hp, script.ht, script.st, partyName))

\* removeParty(partyName) in both runs
BothRemoveParty ==
    \E partyName \in PartyNames :
        /\ RemovePartyCall(partyName)
        /\ script' = Shadow(removeParty(script.hp, script.ht, script.st,
                                        partyName))

RepeatNext ==
    \/ Tick
    \/ SwitchSpeaker
    \/ RepeatedStart
    \/ BothStop
    \/ BothAddParty
    \/ BothRemoveParty

SpecRepeat == InitRepeat /\ [][RepeatNext]_vars

(***************************************************************************)
(* SpecSwitches: a hearing that is never stopped: startSpeaking with the   *)
(* names of parties, the clock advancing between calls.  Every two         *)
(* consecutive turns of its timeline are turns not separated by a stop.    *)
(***************************************************************************)
SwitchesNext ==
    \/ Tick
    \/ HearingStartSpeaking

SpecSwitches == Init /\ [][SwitchesNext]_vars

(***************************************************************************)
(* SpecTurns: the four operations with the names of parties, and in script *)
(* the log of the completed turns: the speaker of a turn is logged when a  *)
(* call ends the turn, by a switch to another participant or by a stop.    *)
(***************************************************************************)
Turns(log) == [phase |-> "turns", turns |-> log]

InitTurns ==
    /\ InitTracker
    /\ script = Turns(<<>>)

TurnsStartSpeaking ==
    \E party \in PartyNames :
        /\ StartSpeakingCall(party)
        /\ script' = IF state.currentSpeaker \notin {NullName, party}
                     THEN Turns(Append(script.turns, state.currentSpeaker))
                     ELSE script

TurnsStopTracking ==
    /\ StopTrackingCall
    /\ script' = IF state.currentSpeaker # NullName
                 THEN Turns(Append(script.turns, state.currentSpeaker))
                 ELSE script

TurnsAddParty ==
    \E partyName \in PartyNames : AddPartyCall(partyName) /\ UNCHANGED script

TurnsRemoveParty ==
    \E partyName \in PartyNames : RemovePartyCall(partyName) /\ UNCHANGED script

TurnsNext ==
    \/ Tick
    \/ TurnsStartSpeaking
    \/ TurnsStopTracking
    \/ TurnsAddParty
    \/ TurnsRemoveParty

SpecTurns == InitTurns /\ [][TurnsNext]_vars

(***************************************************************************)
(* SpecSkew: startSpeaking and stopTracking under a clock that can also be *)
(* set back between two calls (a system time adjustment).                  *)
(***************************************************************************)
\* the system time is set back
SetBack ==
    /\ clock > 0
    /\ clock' = clock - 1
    /\ UNCHANGED <<heapParties, heapTimeline, state, calls, removedTurns, script>>

SkewNext ==
    \/ Tick
    \/ SetBack
    \/ HearingStartSpeaking
    \/ HearingStopTracking

SpecSkew == Init /\ [][SkewNext]_vars

(***************************************************************************)
(* SpecComponent: the SpeakingTimeTracker component (src/unnamed/part_000, *)
(* lines 101-355).  speakingState is the tracker state of the variables;   *)
(* script holds showReport and whether the refresh timer of the effect of  *)
(* lines 110-127 is running after the render that follows an event.        *)
(***************************************************************************)
UI(showReport, st) ==
    [ phase      |-> "ui",
      showReport |-> showReport,
      \* if (speakingState.isActive && !speakingState.isPaused) setInterval(...)
      timer      |-> st.isActive /\ ~st.isPaused ]

\* what is typed into the "Add party..." input
TypedNames == {"Witness", PaddedName, "   "}

\* useState(() => initializeSpeakingTime(['State', 'Defense', 'Court']))
InitComponent ==
    /\ clock = 0
    /\ heapParties = [r \in {1} |-> ReduceParties(<<>>, DefaultParties)]
    /\ heapTimeline = [r \in {1} |-> <<>>]
    /\ state = initializeSpeakingTime(1, 1)
    /\ calls = 0
    /\ removedTurns = 0
    /\ script = UI(FALSE, state)

\* speakingState.parties
speakingStateParties == heapParties[state.parties]

\* handlePartyClick(party), from the button of a participant
handlePartyClick(party) ==
    /\ ~script.showReport
    /\ Has(speakingStateParties, party)
    /\ IF ~state.isActive \/ state.isPaused \/ state.currentSpeaker # party
       THEN /\ StartSpeakingCall(party)
            /\ script' = UI(script.showReport, state')
       ELSE UNCHANGED vars

PartyClick == \E party \in PartyNames \cup TypedNames : handlePartyClick(party)

\* handleRecess, from the Recess button: disabled={!speakingState.isActive}
handleRecess ==
    /\ ~script.showReport
    /\ state.isActive
    /\ StopTrackingCall
    /\ script' = UI(TRUE, state')

\* the Close button of the report: setShowReport(false)
CloseReport ==
    /\ script.showReport
    /\ script' = [script EXCEPT !.showReport = FALSE]
    /\ UNCHANGED <<clock, heapParties, heapTimeline, state, calls, removedTurns>>

\* handleReset: initializeSpeakingTime(Object.keys(speakingState.parties))
handleReset ==
    /\ ~script.showReport
    /\ Returns(Construct(heapParties, heapTimeline,
                         [i \in 1..Len(speakingStateParties) |-> speakingStateParties[i].name]))
    /\ script' = UI(FALSE, state')
    /\ UNCHANGED <<clock, removedTurns>>

\* handleAddParty: if (newPartyName.trim()) addParty(state, newPartyName.trim())
handleAddParty ==
    \E newPartyName \in TypedNames :
        /\ ~script.showReport
        /\ IF Trim(newPartyName) # ""
           THEN /\ AddPartyCall(Trim(newPartyName))
                /\ script' = UI(script.showReport, state')
           ELSE UNCHANGED vars

\* handleRemoveParty(party)
handleRemoveParty ==
    \E party \in PartyNames \cup TypedNames :
        /\ ~script.showReport
        /\ Has(speakingStateParties, party)
        /\ RemovePartyCall(party)
        /\ script' = UI(script.showReport, state')

ComponentNext ==
    \/ Tick
    \/ PartyClick
    \/ handleRecess
    \/ CloseReport
    \/ handleReset
    \/ handleAddParty
    \/ handleRemoveParty

SpecComponent == InitComponent /\ [][ComponentNext]_vars

(***************************************************************************)
(* SpecDeposition: the DepositionMode component                            *)
(* (src/src/components/DepositionMode.js).  Its state is kept in script:   *)
(* the React state isRecording, isPaused, duration, audioBlob (whether a   *)
(* blob is held) and recorder ("null", or the state of the MediaRecorder   *)
(* held: "recording", "paused" or "inactive"), whether the interval of     *)
(* intervalRef is running, whether a stop event of a recorder is pending,  *)
(* and whether the last call raised.  Every handler runs on the state of   *)
(* the latest render.                                                      *)
(***************************************************************************)
Deposition(d) == [phase |-> "deposition"] @@ d

\* getStatus that tests isRecording before isPaused
getStatusRecordingFirst(d) ==
    IF ~d.isRecording /\ ~d.audioBlob THEN "Ready"
    ELSE IF d.isRecording THEN "Recording"
    ELSE IF d.isRecording /\ d.isPaused THEN "Paused"
    ELSE "Completed"

\* getStatus().text
getStatus(d) ==
    IF ~d.isRecording /\ ~d.audioBlob THEN "Ready"
    ELSE IF d.isRecording /\ d.isPaused THEN "Paused"
    ELSE IF d.isRecording THEN "Recording"
    ELSE "Completed"

\* the recorder held is one that recorder.stop() can still stop
Stoppable(recorder) == recorder \in {"recording", "paused"}

InitDeposition ==
    /\ clock = 0
    /\ heapParties = <<>>
    /\ heapTimeline = <<>>
    /\ state = Absent
    /\ calls = 0
    /\ removedTurns = 0
    /\ script = Deposition([ isRecording |-> FALSE, isPaused |-> FALSE,
                             duration |-> 0, audioBlob |-> FALSE,
                             recorder |-> "null", timer |-> FALSE,
                             onstop |-> FALSE, thrown |-> FALSE ])

DepositionStep(d) ==
    /\ script.phase = "deposition"
    /\ script' = d
    /\ UNCHANGED <<clock, heapParties, heapTimeline, state, calls, removedTurns>>

\* startRecording, getUserMedia resolving.  The change of recorder runs the
\* cleanup of the effect of lines 129-138: it clears the interval of
\* intervalRef and stops the recorder held before, if that one is not
\* inactive.
startRecordingGranted ==
    DepositionStep([script EXCEPT !.recorder = "recording",
                                  !.isRecording = TRUE,
                                  !.isPaused = FALSE,
                                  !.timer = FALSE,
                                  !.onstop = script.onstop
                                               \/ Stoppable(script.recorder),
                                  !.thrown = FALSE])

\* startRecording, getUserMedia rejecting: the catch block throws
startRecordingDenied ==
    DepositionStep([script EXCEPT !.thrown = TRUE])

\* togglePause; recorder.pause() and recorder.resume() raise
\* InvalidStateError on an inactive recorder, before any state is set
togglePause ==
    DepositionStep(
        IF script.recorder = "null" THEN [script EXCEPT !.thrown = FALSE]
        ELSE IF script.recorder = "inactive" THEN [script EXCEPT !.thrown = TRUE]
        ELSE IF script.isPaused
        THEN [script EXCEPT !.recorder = "recording", !.isPaused = FALSE,
                            !.timer = TRUE, !.thrown = FALSE]
        ELSE [script EXCEPT !.recorder = "paused", !.isPaused = TRUE,
                            !.timer = FALSE, !.thrown = FALSE])

\* stopRecording
stopRecording ==
    DepositionStep([script EXCEPT !.onstop = script.onstop
                                               \/ Stoppable(script.recorder),
                                  !.isRecording = FALSE,
                                  !.isPaused = FALSE,
                                  !.recorder = "null",
                                  !.timer = FALSE,
                                  !.thrown = FALSE])

\* reset
reset ==
    DepositionStep([script EXCEPT !.duration = 0, !.audioBlob = FALSE,
                                  !.thrown = FALSE])

\* mediaRecorder.onstop: setAudioBlob(blob)
onstop ==
    /\ script.phase = "deposition"
    /\ script.onstop
    /\ DepositionStep([script EXCEPT !.audioBlob = TRUE, !.onstop = FALSE])

\* the recorder held stops by itself (its stream ends)
TrackEnds ==
    /\ script.phase = "deposition"
    /\ Stoppable(script.recorder)
    /\ DepositionStep([script EXCEPT !.recorder = "inactive", !.onstop = TRUE])

\* the interval fires: setDuration(...)
IntervalFires ==
    /\ script.phase = "deposition"
    /\ script.timer
    /\ script.duration < MaxSeconds
    /\ DepositionStep([script EXCEPT !.duration = script.duration + 1])

DepositionNext ==
    \/ startRecordingGranted
    \/ startRecordingDenied
    \/ togglePause
    \/ stopRecording
    \/ reset
    \/ onstop
    \/ TrackEnds
    \/ IntervalFires

SpecDeposition == InitDeposition /\ [][DepositionNext]_vars

(***************************************************************************)
(* SpecFormat: formatTime applied to a given value: a duration of whole    *)
(* hours, minutes and seconds and a remainder of milliseconds, a negative  *)
(* number, or a missing value.                                             *)
(***************************************************************************)
GivenHours == 0..MaxHours \cup {10, 100}
GivenSixtieths == {0, 1, 9, 10, 59}
GivenRemainders == {0, 1, 999}
GivenMs ==
    { Num(1000 * (3600 * h + 60 * m + sec) + r) :
          h \in GivenHours, m \in GivenSixtieths, sec \in GivenSixtieths,
          r \in GivenRemainders }
    \cup { Num(-n) : n \in {1, 5, 999, 1000, 3661000} }
    \cup { JsNull, JsUndefined, JsNaN }

InitFormat ==
    /\ clock = 0
    /\ heapParties = <<>>
    /\ heapTimeline = <<>>
    /\ state = Absent
    /\ calls = 0
    /\ removedTurns = 0
    /\ \E ms \in GivenMs : script = [phase |-> "given", ms |-> ms]

\* text = formatTime(ms)
Format ==
    /\ script.phase = "given"
    /\ script' = [phase |-> "formatted", ms |-> script.ms,
                  text |-> formatTime(script.ms)]
    /\ UNCHANGED <<clock, heapParties, heapTimeline, state, calls, removedTurns>>

FormatNext == Format

SpecFormat == InitFormat /\ [][FormatNext]_vars

(***************************************************************************)
(* SpecConstruct: initializeSpeakingTime applied to a given argument: a    *)
(* list of at most MaxNames names, repetitions allowed, or no list at all. *)
(***************************************************************************)
GivenLists == UNION { [1..n -> PartyNames] : n \in 0..MaxNames }

InitConstruct ==
    /\ clock = 0
    /\ heapParties = <<>>
    /\ heapTimeline = <<>>
    /\ state = Absent
    /\ calls = 0
    /\ removedTurns = 0
    /\ \E parties \in GivenLists \cup NoLists :
           script = [phase |-> "given", parties |-> parties]

\* state = initializeSpeakingTime(parties)
Initialize ==
    LET r == Construct(heapParties, heapTimeline, script.parties)
    IN  /\ script.phase = "given"
        /\ state' = r.ret
        /\ heapParties' = r.hp
        /\ heapTimeline' = r.ht
        /\ script' = [script EXCEPT !.phase = "built"]
        /\ UNCHANGED <<clock, calls, removedTurns>>

ConstructNext == Initialize

SpecConstruct == InitConstruct /\ [][ConstructNext]_vars

(***************************************************************************)
(* Properties.                                                             *)
(***************************************************************************)
\* what the caller sees through the current state
Parties == heapParties[state.parties]
Timeline == heapTimeline[state.timeline]

\* the sum of the durations of a sequence of segments
RECURSIVE SumDurations(_)
SumDurations(segs) ==
    IF segs = <<>> THEN 0 ELSE Head(segs).duration + SumDurations(Tail(segs))

\* C1: in every reachable state each participant's totalTime equals the sum
\* of the durations of that participant's segments.
C1_TotalTimeIsSumOfSegments ==
    \A i \in 1..Len(Parties) :
        Parties[i].totalTime = SumDurations(Parties[i].segments)

\* C1 witness: a participant with two completed turns and time on the record
C1_Witness ==
    \E i \in 1..Len(Parties) :
        /\ Len(Parties[i].segments) = 2
        /\ Parties[i].segments[1].duration > 0
        /\ Parties[i].segments[2].duration > 0
        /\ Parties[i].totalTime = SumDurations(Parties[i].segments)

\* C2 as stated: timeline.length equals the sum over all participants of
\* segments.length, removal of a participant with completed turns included.
C2_TimelineLengthIsSegmentCount ==
    Len(Timeline) = SumSegments(Parties)

\* C2 as amended: timeline.length equals the sum over the participants of
\* segments.length plus the number of segments held by the records that
\* removeParty deleted.
C2_TimelineLengthCountsRemovedTurns ==
    Len(Timeline) = SumSegments(Parties) + removedTurns

\* C2 witness: a participant with a completed turn was removed, another
\* participant still holds one
C2_Witness ==
    /\ removedTurns > 0
    /\ SumSegments(Parties) > 0
    /\ Len(Timeline) = SumSegments(Parties) + removedTurns

\* totalTime of participant n as calculateStatistics reports it (0 when the
\* report has no entry for n)
ReportedTotalTime(stats, n) ==
    IF \E i \in DOMAIN stats.parties : stats.parties[i].name = n
    THEN stats.parties[CHOOSE i \in DOMAIN stats.parties :
                           stats.parties[i].name = n].totalTime
    ELSE 0

\* C3: after a script startSpeaking(n1), ..., startSpeaking(nk), stopTracking()
\* with consecutive names different, under a non-decreasing clock whose first
\* reading may be 0, calculateStatistics reports totalHearingTime = time from
\* the first start to the stop, each totalTime = the waits during that
\* participant's turns, totalSpeakingTime = totalHearingTime, silenceTime = 0.
C3_ScriptStatistics ==
    script.phase = "stopped" =>
        LET stats == calculateStatistics(View(heapParties, heapTimeline, state))
        IN  /\ stats.totalHearingTime = script.stop - script.first
            /\ \A n \in PartyNames : ReportedTotalTime(stats, n) = script.credit[n]
            /\ stats.totalSpeakingTime = stats.totalHearingTime
            /\ stats.silenceTime = 0

\* the same for the scripts whose first clock reading is not 0
C3_ScriptStatisticsFromNonzeroClock ==
    (script.phase = "stopped" /\ script.first # 0) =>
        LET stats == calculateStatistics(View(heapParties, heapTimeline, state))
        IN  /\ stats.totalHearingTime = script.stop - script.first
            /\ \A n \in PartyNames : ReportedTotalTime(stats, n) = script.credit[n]
            /\ stats.totalSpeakingTime = stats.totalHearingTime
            /\ stats.silenceTime = 0

\* the parties and timeline objects after the step, seen through the
\* returned state
PartiesAfter == heapParties'[state'.parties]
TimelineAfter == heapTimeline'[state'.timeline]

\* the records of p by name, for the names of S
Records(p, S) == [n \in S \cap Keys(p) |-> Get(p, n)]

\* C4: startSpeaking(state, X) while X is already the currentSpeaker returns
\* a state with the same startTime, the same totalTime for every participant
\* and no new segment or timeline entry, whatever the clock reads.
C4_SameSpeakerIsNoOp ==
    [][ \A X \in PartyNames :
          (state.currentSpeaker = X /\ StartSpeakingCall(X)) =>
              /\ state'.startTime = state.startTime
              /\ PartiesAfter = Parties
              /\ TimelineAfter = Timeline ]_vars

\* C5: startSpeaking and stopTracking never alter their input state: after a
\* call that finalizes a turn, the participant records, the timeline,
\* currentSpeaker and isActive of the input state are as before the call.
C5_StartStopLeaveInputUnaltered ==
    [][ ( /\ state.currentSpeaker # NullName
          /\ \/ \E B \in PartyNames \ {state.currentSpeaker} : StartSpeakingCall(B)
             \/ StopTrackingCall )
        => View(heapParties', heapTimeline', state)
             = View(heapParties, heapTimeline, state) ]_vars

\* C6: addParty and removeParty never alter their input state: after the
\* call the input state has the same set of participant names as before.
C6_AddRemoveLeaveInputUnaltered ==
    [][ (\E n \in PartyNames \cup BadNames : AddPartyCall(n) \/ RemovePartyCall(n))
        => Keys(heapParties'[state.parties]) = Keys(heapParties[state.parties]) ]_vars

\* C7: in every reachable state currentSpeaker is set if and only if
\* isActive is true.
C7_SpeakerIffActive ==
    (state.currentSpeaker # NullName) <=> state.isActive

\* C8: hearingStartTime is set exactly once, to the clock value of the first
\* startSpeaking call with a valid name (0 included), and no later call
\* changes it.
C8_HearingStartSetOnce ==
    [][ /\ \A party \in PartyNames :
              (state.hearingStartTime = Null /\ StartSpeakingCall(party))
                  => state'.hearingStartTime = clock
        /\ state.hearingStartTime # Null
              => state'.hearingStartTime = state.hearingStartTime ]_vars

\* C9: startSpeaking(state, B) at clock value now while a different
\* participant A is the currentSpeaker appends exactly one segment
\* {startTime, now, now - startTime} to A, the same entry with party A to the
\* timeline, adds the duration to A's totalTime and leaves the records of
\* every other participant unchanged.
C9_SwitchAppendsOneTurn ==
    [][ \A B \in PartyNames :
          LET A   == state.currentSpeaker
              seg == [ start |-> state.startTime, end |-> clock,
                       duration |-> clock - state.startTime ]
          IN  (A # NullName /\ A # B /\ StartSpeakingCall(B)) =>
                  /\ Has(Parties, A) /\ Has(PartiesAfter, A)
                  /\ Get(PartiesAfter, A).segments
                       = Append(Get(Parties, A).segments, seg)
                  /\ Get(PartiesAfter, A).totalTime
                       = Get(Parties, A).totalTime + seg.duration
                  /\ TimelineAfter
                       = Append(Timeline,
                                [ party |-> A, start |-> seg.start,
                                  end |-> seg.end, duration |-> seg.duration ])
                  /\ Records(PartiesAfter, Keys(Parties) \ {A})
                       = Records(Parties, Keys(Parties) \ {A}) ]_vars

\* C9 witness: a switch has just closed a turn of positive length while a
\* third participant holds an earlier turn
C9_Witness ==
    /\ Len(Timeline) >= 2
    /\ state.currentSpeaker # NullName
    /\ Timeline[Len(Timeline)].party # state.currentSpeaker
    /\ Timeline[Len(Timeline)].end = state.startTime
    /\ Timeline[Len(Timeline)].duration > 0
    /\ Timeline[1].party \notin {state.currentSpeaker, Timeline[Len(Timeline)].party}
    /\ Has(Parties, Timeline[1].party)
    /\ Get(Parties, Timeline[1].party).totalTime > 0

\* C10: whenever currentSpeaker is set, for any startTime (0 included),
\* stopTracking at clock value now appends one segment {startTime, now,
\* now - startTime} to that speaker and the same entry to the timeline, adds
\* the duration to the speaker's totalTime, and returns hearingEndTime = now,
\* currentSpeaker = none, startTime = none, isActive = false, isPaused = true.
C10_StopFinalizesLikeSwitch ==
    [][ LET A   == state.currentSpeaker
            seg == [ start |-> state.startTime, end |-> clock,
                     duration |-> clock - state.startTime ]
        IN  (A # NullName /\ StopTrackingCall) =>
                /\ Has(Parties, A) /\ Has(PartiesAfter, A)
                /\ Get(PartiesAfter, A).segments
                     = Append(Get(Parties, A).segments, seg)
                /\ Get(PartiesAfter, A).totalTime
                     = Get(Parties, A).totalTime + seg.duration
                /\ TimelineAfter
                     = Append(Timeline,
                              [ party |-> A, start |-> seg.start,
                                end |-> seg.end, duration |-> seg.duration ])
                /\ state'.hearingEndTime = clock
                /\ state'.currentSpeaker = NullName
                /\ state'.startTime = Null
                /\ state'.isActive = FALSE
                /\ state'.isPaused = TRUE ]_vars

\* the same for the stops made while startTime is not 0
C10_StopFinalizesFromNonzeroStart ==
    [][ LET A   == state.currentSpeaker
            seg == [ start |-> state.startTime, end |-> clock,
                     duration |-> clock - state.startTime ]
        IN  (A # NullName /\ state.startTime # 0 /\ StopTrackingCall) =>
                /\ Has(Parties, A) /\ Has(PartiesAfter, A)
                /\ Get(PartiesAfter, A).segments
                     = Append(Get(Parties, A).segments, seg)
                /\ Get(PartiesAfter, A).totalTime
                     = Get(Parties, A).totalTime + seg.duration
                /\ TimelineAfter
                     = Append(Timeline,
                              [ party |-> A, start |-> seg.start,
                                end |-> seg.end, duration |-> seg.duration ])
                /\ state'.hearingEndTime = clock
                /\ state'.currentSpeaker = NullName
                /\ state'.startTime = Null
                /\ state'.isActive = FALSE
                /\ state'.isPaused = TRUE ]_vars

\* C11: stopTracking called while nobody is speaking (in the initial state, or
\* again right after a stop) sets hearingEndTime to the clock value and
\* leaves every participant's totalTime and segments, the timeline and
\* hearingStartTime unchanged.
C11_StopWhenSilentOnlyStampsEnd ==
    [][ (state.currentSpeaker = NullName /\ StopTrackingCall) =>
            /\ state'.hearingEndTime = clock
            /\ PartiesAfter = Parties
            /\ TimelineAfter = Timeline
            /\ state'.hearingStartTime = state.hearingStartTime ]_vars

\* C11 witness: a hearing with time on the record was stopped, and stopped
\* again later: the end time is past the end of the last recorded turn
C11_Witness ==
    /\ state.currentSpeaker = NullName
    /\ state.hearingStartTime > 0
    /\ Len(Timeline) >= 1
    /\ SumTotalTime(Parties) > 0
    /\ state.hearingEndTime > Timeline[Len(Timeline)].end

\* C12: startSpeaking(state, X) with a valid name X, on a state in which
\* nobody is speaking (idle, or paused by a stop), returns currentSpeaker = X,
\* startTime = the clock value, isActive = true and isPaused = false; it
\* appends nothing, and no participant is credited with the time since the
\* stop.
C12_StartFromIdleOrPausedActivates ==
    [][ \A X \in PartyNames :
          (state.currentSpeaker = NullName /\ StartSpeakingCall(X)) =>
              /\ state'.currentSpeaker = X
              /\ state'.startTime = clock
              /\ state'.isActive = TRUE
              /\ state'.isPaused = FALSE
              /\ TimelineAfter = Timeline
              /\ Records(PartiesAfter, Keys(Parties)) = Records(Parties, Keys(Parties)) ]_vars

\* the same without isActive
C12_StartFromIdleOrPausedBeginsTurn ==
    [][ \A X \in PartyNames :
          (state.currentSpeaker = NullName /\ StartSpeakingCall(X)) =>
              /\ state'.currentSpeaker = X
              /\ state'.startTime = clock
              /\ state'.isPaused = FALSE
              /\ TimelineAfter = Timeline
              /\ Records(PartiesAfter, Keys(Parties)) = Records(Parties, Keys(Parties)) ]_vars

\* what the caller sees through the input state before the step and through
\* the returned state after it
ViewBefore == View(heapParties, heapTimeline, state)
ViewAfter == View(heapParties', heapTimeline', state')

\* the step is the probe op(state, n)
ProbeOf(op, n) ==
    /\ script.phase = "off"
    /\ script'.phase = "probed"
    /\ script'.op = op
    /\ script'.party = n

\* C13: removeParty(state, name) with name the currentSpeaker returns a state
\* in which that participant is still present with the same totalTime and
\* segments and is still the currentSpeaker.
C13_RemoveCurrentSpeakerIsRefused ==
    [][ LET n == state.currentSpeaker
        IN  (n # NullName /\ ProbeOf("removeParty", n) /\ RemovePartyCall(n)) =>
                /\ Has(Parties, n) /\ Has(PartiesAfter, n)
                /\ Get(PartiesAfter, n) = Get(Parties, n)
                /\ state'.currentSpeaker = n ]_vars

\* C13 witness: the last call was removeParty of the current speaker, who
\* holds time from an earlier turn
C13_Witness ==
    /\ script.phase = "probed"
    /\ script.op = "removeParty"
    /\ script.party = state.currentSpeaker
    /\ Has(Parties, script.party)
    /\ Get(Parties, script.party).totalTime > 0

\* C14: removeParty(state, name) with name other than the currentSpeaker
\* returns a state whose participants are the input's minus name, with the
\* record of every other participant, currentSpeaker, startTime,
\* hearingStartTime, hearingEndTime, isActive and isPaused as in the input;
\* when name is no participant the result equals the input.
C14_RemoveOtherDeletesOnlyThatRecord ==
    [][ \A n \in PartyNames \cup BadNames :
          ( /\ n # state.currentSpeaker
            /\ ProbeOf("removeParty", n)
            /\ RemovePartyCall(n) ) =>
              /\ Keys(PartiesAfter) = Keys(Parties) \ {n}
              /\ Records(PartiesAfter, Keys(Parties) \ {n})
                   = Records(Parties, Keys(Parties) \ {n})
              /\ state'.currentSpeaker = state.currentSpeaker
              /\ state'.startTime = state.startTime
              /\ state'.hearingStartTime = state.hearingStartTime
              /\ state'.hearingEndTime = state.hearingEndTime
              /\ state'.isActive = state.isActive
              /\ state'.isPaused = state.isPaused
              /\ ~Has(Parties, n) => ViewAfter = ViewBefore ]_vars

\* C14 witness: the last call removed a participant with completed turns
\* while somebody else is speaking and a remaining participant holds time
C14_Witness ==
    /\ script.phase = "probed"
    /\ script.op = "removeParty"
    /\ script.party \in PartyNames \ Keys(Parties)
    /\ removedTurns > 0
    /\ state.currentSpeaker # NullName
    /\ SumTotalTime(Parties) > 0

\* C15: addParty(state, name) returns a state equal to the input (same names,
\* same totalTime and segments) when name is empty, not a string, whitespace
\* only or already a participant; a participant with accumulated time keeps
\* its record.
C15_AddPartyRefusalsReturnInput ==
    [][ \A n \in PartyNames \cup BadNames :
          ( /\ n \in BadNames \/ Has(Parties, n)
            /\ ProbeOf("addParty", n)
            /\ AddPartyCall(n) ) =>
              ViewAfter = ViewBefore ]_vars

\* C15 witness: the last call was addParty with the name of a participant
\* who holds accumulated time
C15_Witness ==
    /\ script.phase = "probed"
    /\ script.op = "addParty"
    /\ Has(Parties, script.party)
    /\ Get(Parties, script.party).totalTime > 0
    /\ Len(Get(Parties, script.party).segments) > 0

\* C16: addParty(state, name) with a name that is non-empty after trimming
\* and names no participant inserts {totalTime: 0, segments: []} under the
\* trimmed name; a name that differs from a participant's only by surrounding
\* blanks adds no second participant.
C16_AddPartyKeysByTrimmedName ==
    [][ \A n \in PartyNames \cup {PaddedName} :
          (ProbeOf("addParty", n) /\ AddPartyCall(n)) =>
              IF Has(Parties, Trim(n))
              THEN Keys(PartiesAfter) = Keys(Parties)
              ELSE PartiesAfter
                     = Append(Parties, [ name |-> Trim(n), totalTime |-> 0,
                                         segments |-> <<>> ]) ]_vars

\* the same for the names without surrounding blanks
C16_AddPartyKeysByGivenName ==
    [][ \A n \in PartyNames :
          (ProbeOf("addParty", n) /\ AddPartyCall(n)) =>
              IF Has(Parties, n)
              THEN Keys(PartiesAfter) = Keys(Parties)
              ELSE PartiesAfter
                     = Append(Parties, [ name |-> n, totalTime |-> 0,
                                         segments |-> <<>> ]) ]_vars

\* C17: startSpeaking(state, name) with name empty, missing or not a string
\* returns the input state unchanged: hearingStartTime, isActive,
\* currentSpeaker, startTime, participants and timeline are as in the input
\* and no clock reading takes effect.
C17_StartWithUnusableNameReturnsInput ==
    [][ \A n \in {"", NullName, UndefinedName, NumberName} :
          (ProbeOf("startSpeaking", n) /\ StartSpeakingCall(n)) =>
              ViewAfter = ViewBefore ]_vars

\* C17 witness: the last call was startSpeaking with an unusable name, made
\* after the clock moved past the start of the running turn
C17_Witness ==
    /\ script.phase = "probed"
    /\ script.op = "startSpeaking"
    /\ script.party \in {"", NullName, UndefinedName, NumberName}
    /\ state.currentSpeaker # NullName
    /\ state.startTime < clock
    /\ Len(Timeline) >= 1

\* what a caller sees through a state just returned by initializeSpeakingTime()
FreshView ==
    [ parties          |-> ReduceParties(<<>>, DefaultParties),
      timeline         |-> <<>>,
      currentSpeaker   |-> NullName,
      startTime        |-> Null,
      hearingStartTime |-> Null,
      hearingEndTime   |-> Null,
      isActive         |-> FALSE,
      isPaused         |-> FALSE ]

\* the step is the faulty call op(...) with the given kind of fault
FaultOf(op, fault) ==
    /\ script'.phase = "faulted"
    /\ script'.op = op
    /\ script'.fault = fault

\* C18: called with an absent state, each of startSpeaking, stopTracking,
\* addParty and removeParty returns a value and raises no exception;
\* startSpeaking and stopTracking return a fresh initialized state (default
\* participants, no currentSpeaker, isActive false).
C18_AbsentStateNeverRaises ==
    [][ /\ \A op \in {"startSpeaking", "stopTracking", "addParty", "removeParty"} :
              FaultOf(op, "absent") => state' # Thrown
        /\ \A op \in {"startSpeaking", "stopTracking"} :
              FaultOf(op, "absent") => (state' # Absent /\ ViewAfter = FreshView) ]_vars

\* the same for startSpeaking, stopTracking and addParty only
C18_AbsentStateNeverRaisesButRemoveParty ==
    [][ /\ \A op \in {"startSpeaking", "stopTracking", "addParty"} :
              FaultOf(op, "absent") => (state' # Thrown /\ state' # Absent)
        /\ \A op \in {"startSpeaking", "stopTracking"} :
              FaultOf(op, "absent") => ViewAfter = FreshView ]_vars

\* the faulty call of the step raises inside its try block
FailsPartway(fault) ==
    \/ fault = "clock"
    \/ /\ fault = "segments"
       /\ \/ /\ script'.op = "startSpeaking"
             /\ startSpeakingFinalizes(Parties, state, script'.party)
          \/ /\ script'.op = "stopTracking"
             /\ stopTrackingFinalizes(Parties, state)

\* C19: when startSpeaking or stopTracking fails partway through (the clock
\* reading raises, or the previous speaker's record is malformed so that
\* appending the segment fails), the call raises nothing and returns the
\* input state, whose participants' totalTime and segments and whose
\* timeline are the same as before the call.
C19_FailedCallReturnsInputUnaltered ==
    [][ \A op \in {"startSpeaking", "stopTracking"} :
          \A fault \in {"clock", "segments"} :
              (FaultOf(op, fault) /\ FailsPartway(fault)) =>
                  /\ state' = state
                  /\ ViewAfter = ViewBefore ]_vars

\* the same for the calls during which the clock reading raises
C19_FailedClockReturnsInputUnaltered ==
    [][ \A op \in {"startSpeaking", "stopTracking"} :
          FaultOf(op, "clock") =>
              /\ state' = state
              /\ ViewAfter = ViewBefore ]_vars

\* the same for a malformed record: the input state is returned
C19_FailedAppendReturnsInput ==
    [][ \A op \in {"startSpeaking", "stopTracking"} :
          (FaultOf(op, "segments") /\ FailsPartway("segments")) =>
              state' = state ]_vars

\* C20: for every state calculateStatistics returns totalHearingTime =
\* max(0, hearingEndTime - hearingStartTime) with an absent timestamp counted
\* as 0, totalSpeakingTime = the sum of totalTime over all participants, and
\* silenceTime = max(0, totalHearingTime - totalSpeakingTime) computed from
\* the reported totalHearingTime, for every integer totalTime and timestamp;
\* totalHearingTime and silenceTime are never negative.
C20_StatisticsTotals ==
    script.phase = "stats" =>
        LET stats == script.stats
        IN  /\ stats.totalHearingTime
                 = Max(0, ToNumber(state.hearingEndTime)
                          - ToNumber(state.hearingStartTime))
            /\ stats.totalSpeakingTime = SumTotalTime(Parties)
            /\ stats.silenceTime
                 = Max(0, stats.totalHearingTime - stats.totalSpeakingTime)
            /\ stats.totalHearingTime >= 0
            /\ stats.silenceTime >= 0

\* the same for the states whose totalSpeakingTime is not negative
C20_StatisticsTotalsOfNonNegativeTime ==
    (script.phase = "stats" /\ SumTotalTime(Parties) >= 0) =>
        LET stats == script.stats
        IN  /\ stats.totalHearingTime
                 = Max(0, ToNumber(state.hearingEndTime)
                          - ToNumber(state.hearingStartTime))
            /\ stats.totalSpeakingTime = SumTotalTime(Parties)
            /\ stats.silenceTime
                 = Max(0, stats.totalHearingTime - stats.totalSpeakingTime)
            /\ stats.totalHearingTime >= 0
            /\ stats.silenceTime >= 0

\* C30: in every reachable state a set currentSpeaker is a key of parties:
\* startSpeaking registers an unknown name with a zero record before making
\* it the speaker, and removeParty never removes the current speaker.
C30_SpeakerIsParticipant ==
    state.currentSpeaker # NullName => Has(Parties, state.currentSpeaker)

\* C30 witness: the speaker is a name that was removed and then registered
\* again by startSpeaking (it is now the last key), after a turn was recorded
C30_Witness ==
    /\ state.currentSpeaker = "State"
    /\ Len(Parties) >= 2
    /\ Parties[Len(Parties)].name = "State"
    /\ Get(Parties, "State").segments = <<>>
    /\ Len(Timeline) >= 1

\* the set of the entries of a list
Range(f) == {f[i] : i \in DOMAIN f}

\* C28: initializeSpeakingTime(names) returns a state whose participants are
\* exactly the given names (State, Defense and Court when names is missing or
\* no list), each with totalTime 0 and no segments, with currentSpeaker,
\* startTime, hearingStartTime and hearingEndTime none, isActive false,
\* isPaused false and an empty timeline.
C28_InitialState ==
    script.phase = "built" =>
        /\ Keys(Parties) = IF script.parties \in NoLists
                           THEN {"State", "Defense", "Court"}
                           ELSE Range(script.parties)
        /\ \A i \in 1..Len(Parties) :
               Parties[i].totalTime = 0 /\ Parties[i].segments = <<>>
        /\ state.currentSpeaker = NullName
        /\ state.startTime = Null
        /\ state.hearingStartTime = Null
        /\ state.hearingEndTime = Null
        /\ state.isActive = FALSE
        /\ state.isPaused = FALSE
        /\ Timeline = <<>>

\* C28 witness: a tracker built from a list that names a party twice
C28_Witness ==
    /\ script.phase = "built"
    /\ script.parties \notin NoLists
    /\ Len(script.parties) = 3
    /\ Len(Parties) = 2
    /\ Parties[1].name = "Defense"

\* C28 witness for the default: a tracker built from no list
C28_WitnessDefault ==
    /\ script.phase = "built"
    /\ script.parties \in NoLists
    /\ Len(Parties) = 3

\* the statistics of the current state
Stats == calculateStatistics(View(heapParties, heapTimeline, state))

\* C21: for every participant calculateStatistics reports segmentCount = the
\* number of segments and averageSegmentTime = round(totalTime / segmentCount)
\* (halves up), with averageSegmentTime = 0 when there are no segments and
\* percentage = "0" whenever totalSpeakingTime is 0; no division by zero
\* occurs in any reachable state.
C21_PerPartyStatistics ==
    \A i \in 1..Len(Parties) :
        LET e == Stats.parties[i]
            t == Parties[i].totalTime
            c == Len(Parties[i].segments)
        IN  /\ e.name = Parties[i].name
            /\ e.segmentCount = c
            /\ c = 0 => e.averageSegmentTime = 0
            /\ c > 0 => /\ 2 * c * e.averageSegmentTime <= 2 * t + c
                        /\ 2 * t + c < 2 * c * (e.averageSegmentTime + 1)
            /\ Stats.totalSpeakingTime = 0 => e.percentage = "0"

\* C21 witness: a participant whose average is an exact half (two segments,
\* totalTime 1) next to a participant without segments
C21_Witness ==
    /\ \E i \in 1..Len(Parties) :
           Len(Parties[i].segments) = 2 /\ Parties[i].totalTime = 1
    /\ \E i \in 1..Len(Parties) :
           Parties[i].segments = <<>>

\* C21 witness for the percentage: segments are recorded and the total
\* speaking time is 0
C21_WitnessZeroTotal ==
    /\ SumSegments(Parties) >= 2
    /\ SumTotalTime(Parties) = 0
    /\ state.hearingEndTime # Null

\* the strings toFixed(1) gives for 0.0 .. 100.0, by tenths
PercentageStrings ==
    [q \in 0..1000 |-> ToString(q \div 10) \o "." \o ToString(q % 10)]

\* parseFloat of a percentage string, in tenths
ParseTenths(str) ==
    IF str = "0" THEN 0
    ELSE CHOOSE q \in DOMAIN PercentageStrings : PercentageStrings[q] = str

RECURSIVE SumTenths(_)
SumTenths(entries) ==
    IF entries = <<>> THEN 0
    ELSE ParseTenths(Head(entries).percentage) + SumTenths(Tail(entries))

\* C22: in a state reached by a sequence ending in stopTracking with
\* totalSpeakingTime > 0 the per-participant percentages (totalTime /
\* totalSpeakingTime * 100 rounded to one decimal) sum to 100 within 0.05 per
\* participant.
C22_PercentagesSumTo100 ==
    (state.isPaused /\ Stats.totalSpeakingTime > 0) =>
        2 * Abs(SumTenths(Stats.parties) - 1000) <= Len(Parties)

\* C22 witness: a stopped hearing in which three participants hold a third
\* of the speaking time each: 33.3 + 33.3 + 33.3
C22_Witness ==
    /\ state.isPaused
    /\ Len(Parties) = 3
    /\ \A i \in 1..3 : Parties[i].totalTime = 1
    /\ SumTenths(Stats.parties) = 999

\* n on two decimal digits, n in 0..99
TwoDigits(n) == ToString(n \div 10) \o ToString(n % 10)

\* C23: formatTime(ms) is "0:00" when ms is negative or missing; otherwise,
\* with s = floor(ms/1000), it is "M:SS" (M = floor(s/60) unpadded, SS =
\* s mod 60 on two digits) when s < 3600 and "H:MM:SS" (H = floor(s/3600)
\* unpadded, MM and SS on two digits) when s >= 3600.
C23_FormatTime ==
    script.phase = "formatted" =>
        script.text =
            IF script.ms.kind # "number" THEN "0:00"
            ELSE IF script.ms.n < 0 THEN "0:00"
            ELSE LET s == script.ms.n \div 1000
                 IN  IF s < 3600
                     THEN ToString(s \div 60) \o ":" \o TwoDigits(s % 60)
                     ELSE ToString(s \div 3600) \o ":"
                              \o TwoDigits((s % 3600) \div 60) \o ":"
                              \o TwoDigits(s % 60)

\* C23 witness: formatTime(3661000) = "1:01:01"
C23_Witness ==
    /\ script.phase = "formatted"
    /\ script.ms = Num(3661000)
    /\ script.text = "1:01:01"

\* C23 witness: under an hour the minutes are the unpadded leading unit
C23_WitnessMinutes ==
    /\ script.phase = "formatted"
    /\ script.ms = Num(1000 * (60 * 9 + 9) + 999)
    /\ script.text = "9:09"

\* C23 witness: a missing value
C23_WitnessMissing ==
    /\ script.phase = "formatted"
    /\ script.ms = JsUndefined
    /\ script.text = "0:00"

\* what calculateStatistics reports for the given state of SpecReport (for
\* no state at all, of the state generateTextReport puts in its place)
GivenStats ==
    calculateStatistics(IF state = Absent THEN DefaultView ELSE GivenView)

\* the entry of the participant called name
StatsOf(name) ==
    GivenStats.parties[CHOOSE i \in 1..Len(GivenStats.parties) :
                           GivenStats.parties[i].name = name]

\* C24: the per-party breakdown of generateTextReport lists every participant
\* once, in order of non-increasing totalTime, each with the total time,
\* percentage, segment count and average per turn that calculateStatistics
\* reports for that participant.
C24_BreakdownSortedByTotalTime ==
    script.phase = "report" =>
        LET b == script.report.breakdown
        IN  /\ Len(b) = Len(GivenStats.parties)
            /\ \A i \in 1..Len(GivenStats.parties) :
                   \E j \in 1..Len(b) : b[j].party = GivenStats.parties[i].name
            /\ \A j \in 1..Len(b) :
                   /\ b[j].totalTime = formatTime(Num(StatsOf(b[j].party).totalTime))
                   /\ b[j].percent = StatsOf(b[j].party).percentage
                   /\ b[j].turns = StatsOf(b[j].party).segmentCount
                   /\ b[j].average =
                          formatTime(Num(StatsOf(b[j].party).averageSegmentTime))
            /\ \A j, k \in 1..Len(b) :
                   j < k => StatsOf(b[j].party).totalTime
                                >= StatsOf(b[k].party).totalTime

\* C24 witness: the report of a hearing in which Court spoke longest, then
\* Defense, and State not at all
C24_Witness ==
    /\ script.phase = "report"
    /\ Len(script.report.breakdown) = 3
    /\ script.report.breakdown[1].party = "Court"
    /\ script.report.breakdown[1].totalTime = "1:01:01"
    /\ script.report.breakdown[2].party = "Defense"
    /\ script.report.breakdown[2].totalTime = "1:05"
    /\ script.report.breakdown[2].percent = "1.7"
    /\ script.report.breakdown[3].party = "State"
    /\ script.report.breakdown[3].turns = 0

\* the timeline section of the report of the state the latest call returned
ReportedTimeline ==
    generateTextReport(View(heapParties, heapTimeline, state)).timeline

\* C25: in every state reachable by startSpeaking and stopTracking the
\* timeline section of generateTextReport has exactly one line per timeline
\* entry, in timeline order, entries whose start is 0 or whose duration is 0
\* included.
C25_TimelineSectionListsEveryEntry ==
    /\ Len(ReportedTimeline) = Len(Timeline)
    /\ \A i \in 1..Len(Timeline) :
           /\ ReportedTimeline[i].index = i
           /\ ReportedTimeline[i].party = Timeline[i].party
           /\ ReportedTimeline[i].duration = formatTime(Num(Timeline[i].duration))

\* the indices of the timeline entries whose start is not 0
NonzeroStarts == { i \in 1..Len(Timeline) : Timeline[i].start # 0 }

\* what C25 leaves standing: the section has one line per timeline entry
\* whose start is not 0, in timeline order and numbered by the position of
\* the entry in the timeline, entries of duration 0 included.
C25_TimelineSectionListsNonzeroStarts ==
    /\ Len(ReportedTimeline) = Cardinality(NonzeroStarts)
    /\ \A k \in 1..Len(ReportedTimeline) :
           LET i == ReportedTimeline[k].index
           IN  /\ i \in NonzeroStarts
               /\ Cardinality({ j \in NonzeroStarts : j <= i }) = k
               /\ ReportedTimeline[k].party = Timeline[i].party
               /\ ReportedTimeline[k].duration =
                      formatTime(Num(Timeline[i].duration))

\* C26: generateChartData returns labels and data of equal length, one entry
\* per participant in the order of the participants, with data[i] the
\* totalTime of the participant named labels[i]; for an absent state or a
\* state with no participants both are empty.
C26_ChartLabelsMatchData ==
    script.phase = "chart" =>
        LET labels == script.chart.labels
            data   == script.chart.data
        IN  /\ Len(labels) = Len(data)
            /\ state = Absent => labels = <<>>
            /\ state # Absent =>
                   /\ Len(labels) = Len(Parties)
                   /\ \A i \in 1..Len(Parties) :
                          /\ labels[i] = Parties[i].name
                          /\ data[i] = Get(Parties, labels[i]).totalTime

\* C26 witness: the chart of a hearing in which Defense and Court spoke
C26_Witness ==
    /\ script.phase = "chart"
    /\ script.chart.labels = <<"State", "Defense", "Court">>
    /\ script.chart.data = <<0, 65000, 3661000>>

\* C26 witness: the chart of no state
C26_WitnessAbsent ==
    /\ script.phase = "chart"
    /\ state = Absent
    /\ script.chart.data = <<>>

\* C26 witness: the chart of a state with no participants
C26_WitnessNoParticipants ==
    /\ script.phase = "chart"
    /\ state # Absent
    /\ Parties = <<>>
    /\ script.chart.data = <<>>

\* C27: backgroundColor has exactly as many entries as there are
\* participants.
C27_ColoursMatchParticipants ==
    (script.phase = "chart" /\ state # Absent) =>
        Len(script.chart.backgroundColor) = Len(Parties)

\* C27, amended: backgroundColor is the fixed palette of six colours whatever
\* the number of participants, and empty for an absent state.
C27_ColoursAreTheSixOfThePalette ==
    script.phase = "chart" =>
        script.chart.backgroundColor =
            IF state = Absent THEN <<>>
            ELSE << "#e74c3c", "#3498db", "#95a5a6", "#f39c12", "#9b59b6",
                    "#1abc9c" >>

\* C27 witness: the chart of two participants has six colours
C27_Witness ==
    /\ script.phase = "chart"
    /\ script.chart.labels = <<"State", "Defense">>
    /\ Len(script.chart.backgroundColor) = 6

\* the participants and the timeline of the run without the repeated calls
ShadowParties == script.hp[script.st.parties]
ShadowTimeline == script.ht[script.st.timeline]

\* C29: the run with extra startSpeaking(X) calls during X's turns has the
\* same totalTime and the same segments {start, end, duration} for every
\* participant, and the same timeline, as the run without them.
C29_RepeatedStartKeepsAccounting ==
    /\ Parties = ShadowParties
    /\ Timeline = ShadowTimeline

\* what C29 leaves standing: the two runs have the same participants and the
\* same speaker, and are paused together.
C29_RepeatedStartKeepsSpeaker ==
    /\ Keys(Parties) = Keys(ShadowParties)
    /\ state.currentSpeaker = script.st.currentSpeaker
    /\ state.isPaused = script.st.isPaused

\* every segment and every timeline entry has duration = end - start
DurationsAreEndMinusStart ==
    /\ \A i \in 1..Len(Timeline) :
           Timeline[i].duration = Timeline[i].end - Timeline[i].start
    /\ \A i \in 1..Len(Parties) :
           \A k \in 1..Len(Parties[i].segments) :
               Parties[i].segments[k].duration
                   = Parties[i].segments[k].end - Parties[i].segments[k].start

\* C31: each segment and each timeline entry has duration = end - start, and
\* consecutive turns not separated by a stop neither overlap nor leave a
\* gap: each begins when the one before it ended.
C31_TurnsAreContiguous ==
    /\ DurationsAreEndMinusStart
    /\ \A i \in 1..(Len(Timeline) - 1) :
           Timeline[i].end = Timeline[i + 1].start

\* what C31 leaves standing, in every state reachable by the four
\* operations: duration = end - start in every segment and timeline entry
C31_DurationIsEndMinusStart == DurationsAreEndMinusStart

\* what C31 leaves standing: after a speaker switch the end of the entry just
\* appended equals the startTime of the new turn
C31_SwitchEndsAtNewStart ==
    [][ \A B \in PartyNames :
          (state.currentSpeaker # NullName /\ state.currentSpeaker # B
              /\ StartSpeakingCall(B)) =>
                  /\ Len(heapTimeline'[state'.timeline]) = Len(Timeline) + 1
                  /\ heapTimeline'[state'.timeline][Len(Timeline) + 1].end
                         = state'.startTime ]_vars

\* s is a prefix of t
IsPrefix(s, t) == Len(s) <= Len(t) /\ SubSeq(t, 1, Len(s)) = s

\* no entry of tl begins before the one before it ended
Chronological(tl) ==
    \A i \in 1..(Len(tl) - 1) : tl[i].end <= tl[i + 1].start

\* the parties of the entries of tl, in order
PartiesOf(tl) == [i \in 1..Len(tl) |-> tl[i].party]

\* C32: for every operation the timeline of the result has the timeline of
\* the input as a prefix (removeParty included), and under a non-decreasing
\* clock timeline[i].end <= timeline[i+1].start and the sequence of the
\* parties of the timeline is the sequence of completed turns.
C32_TimelineIsLogOfCompletedTurns ==
    [][ /\ IsPrefix(Timeline, TimelineAfter)
        /\ Chronological(TimelineAfter)
        /\ PartiesOf(TimelineAfter) = script'.turns ]_vars

\* what C32 leaves standing: the timeline is append-only and chronological
C32_TimelineIsAppendOnly ==
    [][ /\ IsPrefix(Timeline, TimelineAfter)
        /\ Chronological(TimelineAfter) ]_vars

\* what C32 leaves standing: the parties of the timeline are a subsequence
\* of the completed turns: the timeline never holds more entries than turns
\* were completed
C32_TimelineHoldsNoMoreThanTurns == Len(Timeline) <= Len(script.turns)

\* C33: in every reachable state every participant's totalTime is a
\* non-negative integer and every segment's duration is >= 0, whatever values
\* successive clock reads return, a clock that moves backward between a start
\* and the following switch or stop included.
C33_TimesAreNonNegative ==
    \A i \in 1..Len(Parties) :
        /\ Parties[i].totalTime \in Nat
        /\ \A k \in 1..Len(Parties[i].segments) :
               Parties[i].segments[k].duration >= 0

\* C34: the labels returned by generateChartData are in order of
\* non-increasing totalTime, and data follows the same order, for every
\* state, one whose participants were inserted in increasing order of
\* totalTime included.
C34_ChartIsSortedByTotalTime ==
    (script.phase = "chart" /\ state # Absent) =>
        LET labels == script.chart.labels
            data   == script.chart.data
        IN  /\ \A i \in 1..Len(labels) :
                   data[i] = Get(Parties, labels[i]).totalTime
            /\ \A i \in 1..(Len(data) - 1) : data[i] >= data[i + 1]

\* C35: in every state produced by stopTracking, under a non-decreasing
\* clock, the sum of all participants' totalTime is at most hearingEndTime -
\* hearingStartTime.
C35_SpeakingTimeWithinHearingTime ==
    [][ StopTrackingCall =>
            SumTotalTime(PartiesAfter)
                <= ToNumber(state'.hearingEndTime)
                     - ToNumber(state'.hearingStartTime) ]_vars

\* C36: in every state reachable by any sequence of startSpeaking,
\* stopTracking, addParty and removeParty calls, startTime is set if and only
\* if currentSpeaker is set, and isActive and isPaused are never both true.
C36_StartTimeIffSpeaker ==
    /\ (state.startTime # Null) <=> (state.currentSpeaker # NullName)
    /\ ~(state.isActive /\ state.isPaused)

\* C36 witness: a turn begun at clock reading 0 after an earlier stop
C36_Witness ==
    /\ state.currentSpeaker # NullName
    /\ state.startTime = 0
    /\ state.hearingEndTime # Null
    /\ ~state.isPaused

\* C36 witness: a stopped hearing with a turn on the record
C36_WitnessPaused ==
    /\ state.currentSpeaker = NullName
    /\ state.startTime = Null
    /\ state.isPaused
    /\ Len(Timeline) > 0

\* C37: in the SpeakingTimeTracker component, in every reachable state in
\* which a participant is the current speaker, the Recess button is shown
\* and enabled and the live refresh timer is running.
C37_OpenTurnCanBeStopped ==
    state.currentSpeaker # NullName =>
        /\ ~script.showReport
        /\ state.isActive
        /\ script.timer

\* what C37 leaves standing: until the first Recess of a hearing the Recess
\* button is enabled and the timer running whenever somebody speaks
C37_OpenTurnCanBeStoppedBeforeRecess ==
    (state.currentSpeaker # NullName /\ state.hearingEndTime = Null) =>
        /\ ~script.showReport
        /\ state.isActive
        /\ script.timer

\* C38: in the SpeakingTimeTracker component, clicking the button of the
\* participant who is already the current speaker never changes the
\* tracking state, startTime included.
C38_ClickOnSpeakerChangesNothing ==
    [][ (state.currentSpeaker # NullName
            /\ handlePartyClick(state.currentSpeaker)) =>
                ViewAfter = ViewBefore ]_vars

\* what C38 leaves standing: the click changes nothing while isActive is true
C38_ClickOnSpeakerWhileActiveChangesNothing ==
    [][ (state.currentSpeaker # NullName /\ state.isActive
            /\ handlePartyClick(state.currentSpeaker)) =>
                ViewAfter = ViewBefore ]_vars

\* isPaused implies isRecording, and the status is Ready when not recording
\* and no audio blob exists, Paused when recording and paused, Recording when
\* recording and not paused, and Completed otherwise
DepositionStatusIsRight(d) ==
    /\ d.isPaused => d.isRecording
    /\ getStatus(d) = "Ready" <=> (~d.isRecording /\ ~d.audioBlob)
    /\ getStatus(d) = "Paused" <=> (d.isRecording /\ d.isPaused)
    /\ getStatus(d) = "Recording" <=> (d.isRecording /\ ~d.isPaused)
    /\ getStatus(d) = "Completed" <=> (~d.isRecording /\ d.audioBlob)

\* C39: in DepositionMode, for every sequence of startRecording, togglePause,
\* stopRecording and reset, isPaused implies isRecording; togglePause without
\* a recorder changes nothing; stopRecording always leaves isRecording =
\* false and isPaused = false; and getStatus returns Ready when not recording
\* and no audio blob exists, Paused when recording and paused, Recording when
\* recording and not paused, and Completed otherwise.
C39_DepositionStates ==
    [][ /\ DepositionStatusIsRight(script)
        /\ DepositionStatusIsRight(script')
        /\ (togglePause /\ script.recorder = "null") =>
               [script' EXCEPT !.thrown = script.thrown] = script
        /\ stopRecording => (~script'.isRecording /\ ~script'.isPaused) ]_vars

\* C39 witness: a paused recording while the audio of an earlier recording
\* is held
C39_Witness ==
    /\ script.isRecording
    /\ script.isPaused
    /\ script.audioBlob
    /\ getStatus(script) = "Paused"

\* C39 witness: a completed recording
C39_WitnessCompleted ==
    /\ ~script.isRecording
    /\ script.audioBlob
    /\ script.recorder = "null"
    /\ getStatus(script) = "Completed"

====
